---- MODULE Spec2Model ----
(***************************************************************************)
(* A model of the clstr crate: the streaming parser of CD-HIT's .clstr     *)
(* format (ClstrParser, parse_sequence_line) and its inverse writer        *)
(* (ClstrWriter), and the subcommands of the clstr program built on them  *)
(* (topn, filtern, stats, tofasta).  Text is a sequence of one-character   *)
(* strings, so that parsing and formatting are computed character by       *)
(* character, as the code does.                                            *)
(***************************************************************************)
EXTENDS Integers, Sequences, FiniteSets, TLC

VARIABLES
    input,            \* the bytes of the file handed to the first parser
    reader,           \* ClstrParser.reader: [buf, pos, nread, failAt]
    current_cluster,  \* ClstrParser.current_cluster: None or Some(Cluster)
    yielded,          \* the items the caller holds: those next() returned
                      \* (or, in the writer specification, a cluster it built)
    out,              \* the bytes received by the ClstrWriter's sink
    nwritten,         \* number of clusters handed to write_cluster so far
    pass,             \* 1: parsing input; 2: parsing the written bytes again
    first,            \* the items the first parser returned (set on pass 2)
    cli               \* the command-line program: its subcommand, arguments,
                      \* position, locals, result, stdout, stderr and files

vars == <<input, reader, current_cluster, yielded, out, nwritten, pass, first,
          cli>>

----------------------------------------------------------------------------
(* Bounds of the model.                                                    *)

\* Longest input of the parser specification, in lines.
MaxLines == 3
\* How many times the caller keeps calling next() after it returned None.
MaxNone == 2
\* Resolution of the modelled f32 identity values: 10^-FracScale percent.
FracScale == 3
\* Largest cluster of the writer specification, in sequences.
MaxSeqs == 2
\* Longest input of the command-line specification, in lines.
MaxCliLines == 4
\* Largest --cluster-number and --filter-number of the command-line
\* specification.
MaxN == 2

----------------------------------------------------------------------------
(* Text helpers.                                                           *)

Chars(s) == [i \in 1..Len(s) |-> SubSeq(s, i, i)]

None == [tag |-> "None"]
Some(v) == [tag |-> "Some", val |-> v]

DigitChars == Chars("0123456789")
IsDigit(c) == c \in {DigitChars[i] : i \in 1..10}
DigitVal(c) == (CHOOSE i \in 1..10 : DigitChars[i] = c) - 1

RECURSIVE Pow10(_)
Pow10(k) == IF k = 0 THEN 1 ELSE 10 * Pow10(k - 1)

\* char::is_whitespace on the characters of the model's alphabet.
IsWhitespace(c) == c \in {" ", "\t", "\r", "\n"}

\* str::starts_with / str::ends_with for a character or a string pattern.
starts_with(s, pat) ==
    /\ Len(s) >= Len(pat)
    /\ SubSeq(s, 1, Len(pat)) = pat

ends_with(s, pat) ==
    /\ Len(s) >= Len(pat)
    /\ SubSeq(s, Len(s) - Len(pat) + 1, Len(s)) = pat

\* str::find: the zero-based byte offset of the first match, or None.
find(s, pat) ==
    LET hits == {i \in 0..(Len(s) - Len(pat)) : SubSeq(s, i + 1, i + Len(pat)) = pat}
    IN  IF hits = {} THEN None
        ELSE Some(CHOOSE i \in hits : \A j \in hits : i <= j)

\* str::split_whitespace().collect(): the maximal runs of non-whitespace.
RECURSIVE SplitFrom(_, _, _, _)
SplitFrom(s, i, cur, acc) ==
    IF i > Len(s)
    THEN IF cur = <<>> THEN acc ELSE Append(acc, cur)
    ELSE IF IsWhitespace(s[i])
         THEN SplitFrom(s, i + 1, <<>>, IF cur = <<>> THEN acc ELSE Append(acc, cur))
         ELSE SplitFrom(s, i + 1, Append(cur, s[i]), acc)

split_whitespace(s) == SplitFrom(s, 1, <<>>, <<>>)

\* str::strip_suffix: Some(prefix) when s ends with suf, else None.
strip_suffix(s, suf) ==
    IF ends_with(s, suf) THEN Some(SubSeq(s, 1, Len(s) - Len(suf))) ELSE None

\* str::trim_start_matches(c): every leading c is removed.
RECURSIVE trim_start_matches(_, _)
trim_start_matches(s, c) ==
    IF s # <<>> /\ Head(s) = c THEN trim_start_matches(Tail(s), c) ELSE s

\* str::trim_end_matches(c): every trailing c is removed.
RECURSIVE trim_end_matches(_, _)
trim_end_matches(s, c) ==
    IF s # <<>> /\ s[Len(s)] = c
    THEN trim_end_matches(SubSeq(s, 1, Len(s) - 1), c)
    ELSE s

\* str::split(pat).next(): the text before the first pat, or all of s when
\* pat does not occur.  The iterator always has a first element.
split_next(s, pat) ==
    LET at == find(s, pat)
    IN  IF at.tag = "None" THEN Some(s) ELSE Some(SubSeq(s, 1, at.val))

----------------------------------------------------------------------------
(* Numbers.                                                                *)

RECURSIVE DigitsValue(_, _)
DigitsValue(s, acc) ==
    IF s = <<>> THEN acc ELSE DigitsValue(Tail(s), 10 * acc + DigitVal(Head(s)))

AllDigits(s) == \A i \in 1..Len(s) : IsDigit(s[i])

\* str::parse::<u32>: an optional '+', then one or more decimal digits.
\* (Values beyond u32::MAX are outside the model's inputs.)
parse_u32(s) ==
    LET body == IF s # <<>> /\ Head(s) = "+" THEN Tail(s) ELSE s
    IN  IF s = <<>> THEN [ok |-> FALSE, cause |-> "Empty"]
        ELSE IF body = <<>> \/ ~AllDigits(body)
             THEN [ok |-> FALSE, cause |-> "InvalidDigit"]
             ELSE [ok |-> TRUE, val |-> DigitsValue(body, 0)]

\* str::parse::<f32> on plain decimal numerals: an optional sign, digits,
\* an optional '.', digits, with at least one digit.  The value is held in
\* units of 10^-FracScale; the model's inputs carry at most FracScale
\* fraction digits and no exponent, "inf" or "nan" forms.
parse_f32(s) ==
    LET signed == s # <<>> /\ Head(s) \in {"+", "-"}
        body   == IF signed THEN Tail(s) ELSE s
        dot    == find(body, <<".">>)
        ip     == IF dot.tag = "None" THEN body ELSE SubSeq(body, 1, dot.val)
        fp     == IF dot.tag = "None" THEN <<>> ELSE SubSeq(body, dot.val + 2, Len(body))
        fpk    == SubSeq(fp, 1, IF Len(fp) < FracScale THEN Len(fp) ELSE FracScale)
        mag    == DigitsValue(ip, 0) * Pow10(FracScale)
                  + DigitsValue(fpk, 0) * Pow10(FracScale - Len(fpk))
    IN  IF s = <<>> THEN [ok |-> FALSE, cause |-> "Empty"]
        ELSE IF ~AllDigits(ip) \/ ~AllDigits(fp) \/ (ip = <<>> /\ fp = <<>>)
             THEN [ok |-> FALSE, cause |-> "Invalid"]
             ELSE [ok |-> TRUE,
                   val |-> IF signed /\ Head(s) = "-" THEN 0 - mag ELSE mag]

\* Display of an unsigned integer ("{}" of usize / u32).
RECURSIVE FormatNat(_)
FormatNat(n) ==
    IF n < 10 THEN <<DigitChars[n + 1]>>
    ELSE FormatNat(n \div 10) \o <<DigitChars[(n % 10) + 1]>>

\* The number of hundredths nearest to a magnitude given in units of
\* 10^-FracScale, ties to even (float formatting with a precision rounds
\* the exact value half to even).
Hundredths(mag) ==
    LET unit == Pow10(FracScale - 2)
        q    == mag \div unit
        r    == mag % unit
    IN  IF 2 * r > unit \/ (2 * r = unit /\ q % 2 = 1) THEN q + 1 ELSE q

\* "{:.2}" of an f32: sign, integer part, '.', exactly two fraction digits.
FormatFixed2(v) ==
    LET mag == IF v < 0 THEN 0 - v ELSE v
        h   == Hundredths(mag)
    IN  (IF v < 0 THEN <<"-">> ELSE <<>>)
        \o FormatNat(h \div 100) \o <<".">>
        \o <<DigitChars[((h \div 10) % 10) + 1], DigitChars[(h % 10) + 1]>>

----------------------------------------------------------------------------
(* Results and errors.                                                     *)

Ok(v) == [tag |-> "Ok", val |-> v]
Err(e) == [tag |-> "Err", err |-> e]

\* ErrorKind::ReadRecord(format!("<msg>: {}", line)).
ReadRecord(msg, line) == [kind |-> "ReadRecord", msg |-> msg, line |-> line]
\* ErrorKind::Int(ParseIntError): the conversion keeps the cause only.
IntError(cause) == [kind |-> "Int", cause |-> cause]
\* ErrorKind::Float(ParseFloatError): the conversion keeps the cause only.
FloatError(cause) == [kind |-> "Float", cause |-> cause]
\* ErrorKind::Io(io::Error).
IoError == [kind |-> "Io"]

Sequence(length, id, identity, is_representative) ==
    [length |-> length, id |-> id, identity |-> identity,
     is_representative |-> is_representative]

Cluster(cluster_id, sequences) ==
    [cluster_id |-> cluster_id, sequences |-> sequences]

----------------------------------------------------------------------------
(* parse_sequence_line.                                                    *)

\* A suffix check that forgets the comma.
AaSuffix_NoComma == Chars("aa")
AaSuffix == Chars("aa,")
Ellipsis == Chars("...")
AtMarker == Chars(" at ")

\* An identity scan that forgets to trim the '%'.
IdentityOf_KeepPercent(line) ==
    LET at_pos == find(line, AtMarker)
    IN  IF at_pos.tag = "Some"
        THEN LET p == parse_f32(SubSeq(line, at_pos.val + 5, Len(line)))
             IN  IF p.ok THEN Ok(Some(p.val)) ELSE Err(FloatError(p.cause))
        ELSE Ok(None)

\* line[at_pos + 4..].trim_end_matches('%').parse::<f32>()
IdentityOf(line) ==
    LET at_pos == find(line, AtMarker)
    IN  IF at_pos.tag = "Some"
        THEN LET p == parse_f32(trim_end_matches(
                          SubSeq(line, at_pos.val + 5, Len(line)), "%"))
             IN  IF p.ok THEN Ok(Some(p.val)) ELSE Err(FloatError(p.cause))
        ELSE Ok(None)

parse_sequence_line(line) ==
    LET parts == split_whitespace(line)
    IN  IF Len(parts) < 3
        THEN Err(ReadRecord("Invalid sequence line", line))
        ELSE
        LET stripped == strip_suffix(parts[2], AaSuffix)
        IN  IF stripped.tag = "None"
            THEN Err(ReadRecord("Invalid length format", line))
            ELSE
            LET length == parse_u32(stripped.val)
            IN  IF ~length.ok
                THEN Err(IntError(length.cause))
                ELSE
                LET id == split_next(trim_start_matches(parts[3], ">"), Ellipsis)
                IN  IF id.tag = "None"
                    THEN Err(ReadRecord("Invalid ID format", line))
                    ELSE
                    LET is_representative == ends_with(line, <<"*">>)
                        identity == IdentityOf(line)
                    IN  IF identity.tag = "Err"
                        THEN identity
                        ELSE Ok(Sequence(length.val, id.val, identity.val,
                                         is_representative))

----------------------------------------------------------------------------
(* The reader and the parser.                                              *)

\* BufRead::lines().next(): the bytes up to and including the next '\n'
\* (or to the end of the buffer), without the '\n' and a '\r' before it;
\* None at end of input.  The read numbered failAt fails; its bytes are
\* consumed by the failed read.
lines_next(rd) ==
    IF rd.pos >= Len(rd.buf)
    THEN [item |-> None, rd |-> rd]
    ELSE
    LET nls  == {i \in (rd.pos + 1)..Len(rd.buf) : rd.buf[i] = "\n"}
        end  == IF nls = {} THEN Len(rd.buf)
                ELSE CHOOSE i \in nls : \A j \in nls : i <= j
        raw  == SubSeq(rd.buf, rd.pos + 1, end)
        cut  == IF ends_with(raw, <<"\n">>)
                THEN LET a == SubSeq(raw, 1, Len(raw) - 1)
                     IN  IF ends_with(a, <<"\r">>)
                         THEN SubSeq(a, 1, Len(a) - 1) ELSE a
                ELSE raw
        rd2  == [rd EXCEPT !.pos = end, !.nread = @ + 1]
    IN  IF rd.nread + 1 = rd.failAt
        THEN [item |-> Some(Err(IoError)), rd |-> rd2]
        ELSE [item |-> Some(Ok(cut)), rd |-> rd2]

NewReader(buf, failAt) == [buf |-> buf, pos |-> 0, nread |-> 0, failAt |-> failAt]

\* A header step whose new cluster starts with the sequences of the one
\* it returns.
OnHeader_KeepsSequences(cur) ==
    IF cur.tag = "Some"
    THEN [current_cluster |->
              Some(Cluster(cur.val.cluster_id + 1, cur.val.sequences)),
          ret |-> Some(Some(Ok(cur.val)))]
    ELSE [current_cluster |-> Some(Cluster(0, <<>>)), ret |-> None]

\* A header step that numbers the first cluster 1.
OnHeader_FirstIsOne(cur) ==
    IF cur.tag = "Some"
    THEN [current_cluster |-> Some(Cluster(cur.val.cluster_id + 1, <<>>)),
          ret |-> Some(Some(Ok(cur.val)))]
    ELSE [current_cluster |-> Some(Cluster(1, <<>>)), ret |-> None]

\* The body of the loop for a line that starts with '>': with a cluster
\* being accumulated, that cluster is returned and its successor started;
\* otherwise cluster 0 is started and the loop goes on (ret = None).
OnHeader(cur) ==
    IF cur.tag = "Some"
    THEN [current_cluster |-> Some(Cluster(cur.val.cluster_id + 1, <<>>)),
          ret |-> Some(Some(Ok(cur.val)))]
    ELSE [current_cluster |-> Some(Cluster(0, <<>>)), ret |-> None]

\* The body of the loop for any other line: parsed and pushed when a
\* cluster is being accumulated, an error returned when that fails, and
\* nothing at all when no cluster is being accumulated.
OnRecord(cur, line) ==
    IF cur.tag = "Some"
    THEN LET p == parse_sequence_line(line)
         IN  IF p.tag = "Ok"
             THEN [current_cluster |->
                       Some([cur.val EXCEPT !.sequences = Append(@, p.val)]),
                   ret |-> None]
             ELSE [current_cluster |-> cur, ret |-> Some(Some(Err(p.err)))]
    ELSE [current_cluster |-> cur, ret |-> None]

\* line.starts_with('>')
IsHeaderLine(line) == starts_with(line, <<">">>)

\* The body of the loop for one line that was read.
LineStep(cur, line) ==
    IF IsHeaderLine(line) THEN OnHeader(cur) ELSE OnRecord(cur, line)

\* <ClstrParser as Iterator>::next: one call, from the parser state
\* (rd, cur) to the new state and the returned Option<Result<Cluster>>.
\* The loop reads a line (AfterRead), runs its body (AfterStep) and goes
\* on until the body returns or the input ends.
RECURSIVE ClstrParser_next(_, _)

AfterStep(rd, step) ==
    IF step.ret.tag = "Some"
    THEN [reader |-> rd, current_cluster |-> step.current_cluster,
          item |-> step.ret.val]
    ELSE ClstrParser_next(rd, step.current_cluster)

\* A loop that returns the cluster being accumulated at the end of the
\* input and keeps it.
AfterRead_KeepAtEnd(r, cur) ==
    IF r.item.tag = "None"
    THEN [reader |-> r.rd, current_cluster |-> cur,
          item |-> IF cur.tag = "Some" THEN Some(Ok(cur.val)) ELSE None]
    ELSE IF r.item.val.tag = "Err"
    THEN [reader |-> r.rd, current_cluster |-> cur,
          item |-> Some(Err(r.item.val.err))]
    ELSE AfterStep(r.rd, LineStep(cur, r.item.val.val))

\* A loop that drops the cluster being accumulated when a read fails.
AfterRead_DropOnError(r, cur) ==
    IF r.item.tag = "None"
    THEN [reader |-> r.rd, current_cluster |-> None,
          item |-> IF cur.tag = "Some" THEN Some(Ok(cur.val)) ELSE None]
    ELSE IF r.item.val.tag = "Err"
    THEN [reader |-> r.rd, current_cluster |-> None,
          item |-> Some(Err(r.item.val.err))]
    ELSE AfterStep(r.rd, LineStep(cur, r.item.val.val))

AfterRead(r, cur) ==
    IF r.item.tag = "None"
    THEN [reader |-> r.rd, current_cluster |-> None,
          item |-> IF cur.tag = "Some" THEN Some(Ok(cur.val)) ELSE None]
    ELSE IF r.item.val.tag = "Err"
    THEN [reader |-> r.rd, current_cluster |-> cur,
          item |-> Some(Err(r.item.val.err))]
    ELSE AfterStep(r.rd, LineStep(cur, r.item.val.val))

ClstrParser_next(rd, cur) == AfterRead(lines_next(rd), cur)

----------------------------------------------------------------------------
(* The writer.                                                             *)

\* A member line that marks the representative only when it has no identity.
write_sequence_ElseIf(index, sequence) ==
    FormatNat(index) \o Chars("    ") \o FormatNat(sequence.length)
    \o Chars("aa, >") \o sequence.id \o Chars("...")
    \o (IF sequence.identity.tag = "Some"
        THEN Chars(" at ") \o FormatFixed2(sequence.identity.val) \o <<"%">>
        ELSE IF sequence.is_representative THEN Chars(" *") ELSE <<>>)
    \o <<"\n">>

\* A member line numbered from 1.
write_sequence_OneBased(index, sequence) ==
    FormatNat(index + 1) \o Chars("    ") \o FormatNat(sequence.length)
    \o Chars("aa, >") \o sequence.id \o Chars("...")
    \o (IF sequence.identity.tag = "Some"
        THEN Chars(" at ") \o FormatFixed2(sequence.identity.val) \o <<"%">>
        ELSE <<>>)
    \o (IF sequence.is_representative THEN Chars(" *") ELSE <<>>)
    \o <<"\n">>

\* ClstrWriter::write_sequence: the bytes of one member line.
write_sequence(index, sequence) ==
    FormatNat(index) \o Chars("    ") \o FormatNat(sequence.length)
    \o Chars("aa, >") \o sequence.id \o Chars("...")
    \o (IF sequence.identity.tag = "Some"
        THEN Chars(" at ") \o FormatFixed2(sequence.identity.val) \o <<"%">>
        ELSE <<>>)
    \o (IF sequence.is_representative THEN Chars(" *") ELSE <<>>)
    \o <<"\n">>

RECURSIVE WriteSequences(_, _)
WriteSequences(sequences, index) ==
    IF index >= Len(sequences) THEN <<>>
    ELSE write_sequence(index, sequences[index + 1])
         \o WriteSequences(sequences, index + 1)

\* ClstrWriter::write_cluster: the bytes appended to the sink.
write_cluster(cluster) ==
    Chars(">Cluster ") \o FormatNat(cluster.cluster_id) \o <<"\n">>
    \o WriteSequences(cluster.sequences, 0)

----------------------------------------------------------------------------
(* Inputs.                                                                 *)

\* Lines of the parser specification: headers whose numeral need not be
\* their rank, records in and out of the writer's layout (four spaces or a
\* tab, two or three fraction digits, a carriage return), and malformed or
\* unusual records; a line that starts with '>' without being a "Cluster"
\* line.
HeaderPool == {Chars(">Cluster 0"), Chars(">Cluster 1")}

RecordPool ==
    {Chars("0    10aa, >sA... at 95.00%"),
     Chars("3    7aa, >sB... *"),
     Chars("0\t5aa, >sC... at 99.896%\r"),
     Chars("1    5aa, >sD... at 66.946%")}

OddPool == {Chars("junk"), Chars("0 5aa, >a."), Chars(">x")}

LinePool == HeaderPool \cup RecordPool \cup OddPool

RECURSIVE JoinLines(_, _)
JoinLines(ls, final) ==
    IF ls = <<>> THEN <<>>
    ELSE Head(ls)
         \o (IF Len(ls) > 1 \/ final THEN <<"\n">> ELSE <<>>)
         \o JoinLines(Tail(ls), final)

LineLists == UNION {[1..n -> LinePool] : n \in 0..MaxLines}

\* Pieces of the record lines of the line specification.
IndexToks == {Chars("0"), Chars("12")}
Separators == {Chars("    "), Chars("\t"), Chars(" ")}
LengthToks ==
    {Chars("100aa,"), Chars("7aa,"), Chars("+7aa,"), Chars("100"),
     Chars("aa,"), Chars("1x0aa,"), Chars("100aa")}
IdToks ==
    {Chars(">sA..."), Chars(">a."), Chars("sB..."), Chars(">>c..."),
     Chars(">..."), Chars(">a.b..."), Chars(">a...b..."), <<>>}
Tails ==
    {<<>>, Chars(" *"), Chars("*"), Chars(" at 95.00%"), Chars(" at 99.896%"),
     Chars(" at 7"), Chars(" at 95.00% *"), Chars(" at x%")}

RecordLines ==
    {i \o s \o l \o <<" ">> \o d \o t :
        i \in IndexToks, s \in Separators, l \in LengthToks,
        d \in IdToks, t \in Tails}

\* Clusters built directly, as the crate's own code can build them: any
\* combination of identity and is_representative.
SequencePool ==
    {Sequence(l, Chars("sA"), d, r) :
        l \in {7, 4481},
        d \in {None, Some(95 * Pow10(FracScale)),
               Some(99896 * Pow10(FracScale - 3)),
               Some(66946 * Pow10(FracScale - 3))},
        r \in BOOLEAN}

ClusterPool ==
    {Cluster(n, ss) :
        n \in {0, 12},
        ss \in UNION {[1..k -> SequencePool] : k \in 0..MaxSeqs}}

----------------------------------------------------------------------------
(* The state machine.                                                      *)

\* The library used without the command-line program.
NoCli == [op |-> "none", pc |-> "lib"]

Start(text, failAt) ==
    /\ input = text
    /\ reader = NewReader(text, failAt)    \* ClstrParser::new
    /\ current_cluster = None
    /\ yielded = <<>>
    /\ out = <<>>                          \* ClstrWriter::new
    /\ nwritten = 0
    /\ pass = 1
    /\ first = <<>>
    /\ cli = NoCli

\* Any text of at most MaxLines pool lines, with or without a final line
\* terminator; at most one line read fails.
Init ==
    \E ls \in LineLists, final \in BOOLEAN, failAt \in 0..MaxLines :
        /\ failAt <= Len(ls)
        /\ (ls = <<>> => final)
        /\ Start(JoinLines(ls, final), failAt)

\* One header and one record line assembled from the pieces.
InitLine ==
    \E line \in RecordLines :
        Start(Chars(">Cluster 0\n") \o line \o <<"\n">>, 0)

\* The caller holds a cluster it built itself and has not written yet; its
\* parser has an empty input.
InitWrite ==
    \E c \in ClusterPool :
        /\ input = <<>>
        /\ reader = NewReader(<<>>, 0)
        /\ current_cluster = None
        /\ yielded = <<Some(Ok(c))>>
        /\ out = <<>>
        /\ nwritten = 0
        /\ pass = 1
        /\ first = <<>>
        /\ cli = NoCli

CountTag(items, tag) == Cardinality({i \in 1..Len(items) : items[i].tag = tag})

\* The clusters among the returned items, in order.
RECURSIVE Clusters(_)
Clusters(items) ==
    IF items = <<>> THEN <<>>
    ELSE IF Head(items).tag = "Some" /\ Head(items).val.tag = "Ok"
         THEN <<Head(items).val.val>> \o Clusters(Tail(items))
         ELSE Clusters(Tail(items))

\* The caller calls next() on the live parser.
Advance ==
    /\ CountTag(yielded, "None") < MaxNone
    /\ pass = 1 => nwritten = Len(Clusters(yielded))
    /\ LET r == ClstrParser_next(reader, current_cluster)
       IN  /\ reader' = r.reader
           /\ current_cluster' = r.current_cluster
           /\ yielded' = Append(yielded, r.item)
    /\ UNCHANGED <<input, out, nwritten, pass, first, cli>>

\* The caller hands the cluster it just received to write_cluster.
WriteCluster ==
    /\ pass = 1
    /\ nwritten < Len(Clusters(yielded))
    /\ out' = out \o write_cluster(Clusters(yielded)[nwritten + 1])
    /\ nwritten' = nwritten + 1
    /\ UNCHANGED <<input, reader, current_cluster, yielded, pass, first, cli>>

\* Once the first parser is exhausted, a new parser reads the written bytes.
Reparse ==
    /\ pass = 1
    /\ yielded # <<>>
    /\ yielded[Len(yielded)].tag = "None"
    /\ pass' = 2
    /\ first' = yielded
    /\ yielded' = <<>>
    /\ reader' = NewReader(out, 0)
    /\ current_cluster' = None
    /\ UNCHANGED <<input, out, nwritten, cli>>

Next == Advance \/ WriteCluster \/ Reparse

Spec == Init /\ [][Next]_vars

SpecLine == InitLine /\ [][Next]_vars

SpecWrite == InitWrite /\ [][Next]_vars

\* Advance is enabled exactly when its guard holds, and a step is an
\* Advance step exactly when it adds an item to yielded.
AdvanceEnabled ==
    /\ CountTag(yielded, "None") < MaxNone
    /\ pass = 1 => nwritten = Len(Clusters(yielded))

AdvanceMade == Len(yielded') = Len(yielded) + 1

\* The caller keeps calling next(), and writes each cluster it receives:
\* weak fairness of WriteCluster and of Advance, the latter written out
\* with the guard of Advance for ENABLED <<Advance>>_vars.
SpecLive ==
    /\ Init /\ [][Next]_vars
    /\ WF_vars(WriteCluster)
    /\ ([]<>~AdvanceEnabled \/ []<><<AdvanceMade>>_vars)

----------------------------------------------------------------------------
(* The command-line program (main.rs).  One action is one iteration of a   *)
(* subcommand's loop over the parser, or the code that follows the loop;   *)
(* ReportAndExit is what main does with the subcommand's result.           *)

\* Cluster::size
size(cluster) == Len(cluster.sequences)

\* A threshold test that excludes the clusters of exactly the threshold.
Keep_Strict(cluster, filter_threshold) == size(cluster) > filter_threshold

\* filter_n's test: cluster.size() >= filter_threshold
Keep(cluster, filter_threshold) == size(cluster) >= filter_threshold

\* An insertion that puts a cluster before the clusters of its own size.
RECURSIVE InsertBySize_TiesFirst(_, _)
InsertBySize_TiesFirst(sorted, c) ==
    IF sorted = <<>> THEN <<c>>
    ELSE IF size(Head(sorted)) > size(c)
         THEN <<Head(sorted)>> \o InsertBySize_TiesFirst(Tail(sorted), c)
         ELSE <<c>> \o sorted

\* sort_by_key(|b| Reverse(b.size())) is a stable sort: a cluster goes
\* behind every earlier cluster that is at least as large.
RECURSIVE InsertBySize(_, _)
InsertBySize(sorted, c) ==
    IF sorted = <<>> THEN <<c>>
    ELSE IF size(Head(sorted)) >= size(c)
         THEN <<Head(sorted)>> \o InsertBySize(Tail(sorted), c)
         ELSE <<c>> \o sorted

RECURSIVE SortFrom(_, _)
SortFrom(clusters, sorted) ==
    IF clusters = <<>> THEN sorted
    ELSE SortFrom(Tail(clusters), InsertBySize(sorted, Head(clusters)))

sort_by_key(clusters) == SortFrom(clusters, <<>>)

\* Iterator::take
take(s, n) == SubSeq(s, 1, IF n < Len(s) THEN n ELSE Len(s))

\* The bytes of write_cluster for each cluster of a list, in order.
RECURSIVE WriteAll(_)
WriteAll(clusters) ==
    IF clusters = <<>> THEN <<>>
    ELSE write_cluster(Head(clusters)) \o WriteAll(Tail(clusters))

\* The sequence database read by read_fasta: id -> (description, sequence).
fasta_map == [id \in {Chars("sA")} |-> [desc |-> Chars("d a/b"), seq |-> Chars("MK")]]

\* str::replace of one character by another.
replace(s, from, to) == [i \in 1..Len(s) |-> IF s[i] = from THEN to ELSE s[i]]

\* Cluster::get_representative: the first representative sequence.
get_representative(cluster) ==
    IF \E i \in 1..size(cluster) : cluster.sequences[i].is_representative
    THEN Some(cluster.sequences[
             CHOOSE i \in 1..size(cluster) :
                 /\ cluster.sequences[i].is_representative
                 /\ \A j \in 1..(i - 1) : ~cluster.sequences[j].is_representative])
    ELSE None

\* to_fasta's name for the cluster's file.
FastaName(cluster) ==
    IF get_representative(cluster).tag = "Some"
    THEN replace(replace(
             IF get_representative(cluster).val.id \in DOMAIN fasta_map
             THEN fasta_map[get_representative(cluster).val.id].desc
             ELSE Chars("no-description"),
             " ", "_"), "/", "_")
    ELSE Chars("No representative")

\* write_cluster_to_fasta: the records written, and the warnings printed
\* for the ids the database lacks.
RECURSIVE FastaRecords(_)
FastaRecords(sequences) ==
    IF sequences = <<>> THEN <<>>
    ELSE (IF Head(sequences).id \in DOMAIN fasta_map
          THEN <<[id |-> Head(sequences).id,
                  desc |-> fasta_map[Head(sequences).id].desc,
                  seq |-> fasta_map[Head(sequences).id].seq]>>
          ELSE <<>>)
         \o FastaRecords(Tail(sequences))

RECURSIVE FastaWarnings(_)
FastaWarnings(sequences) ==
    IF sequences = <<>> THEN <<>>
    ELSE (IF Head(sequences).id \in DOMAIN fasta_map THEN <<>>
          ELSE <<[warning |-> "sequence ID not found in FASTA",
                  id |-> Head(sequences).id]>>)
         \o FastaWarnings(Tail(sequences))

\* File::create: the file of that name is created or truncated.
RECURSIVE CreateFile(_, _, _)
CreateFile(files, name, records) ==
    IF files = <<>> THEN <<[name |-> name, records |-> records]>>
    ELSE IF Head(files).name = name
         THEN CreateFile(Tail(files), name, records)
         ELSE <<Head(files)>> \o CreateFile(Tail(files), name, records)

\* Lines of the command-line specification.
CliLinePool ==
    {Chars(">Cluster 0"), Chars("0    10aa, >sA... *"),
     Chars("1    7aa, >sB... at 95.00%"), Chars("junk")}

CliLineLists == UNION {[1..n -> CliLinePool] : n \in 0..MaxCliLines}

\* The subcommands and their arguments.
Commands ==
    {[op |-> "topn", n |-> n, table |-> FALSE] : n \in 0..MaxN}
    \cup {[op |-> "filtern", n |-> n, table |-> FALSE] : n \in 0..MaxN}
    \cup {[op |-> "stats", n |-> 0, table |-> t] : t \in BOOLEAN}
    \cup {[op |-> "tofasta", n |-> 0, table |-> FALSE]}

\* main has parsed its arguments and the subcommand has opened the input;
\* no read fails, or the read of the last line does.
InitCli ==
    \E ls \in CliLineLists, failing \in BOOLEAN, cmd \in Commands :
        /\ (failing => ls # <<>>)
        /\ input = JoinLines(ls, TRUE)
        /\ reader = NewReader(JoinLines(ls, TRUE), IF failing THEN Len(ls) ELSE 0)
        /\ current_cluster = None
        /\ yielded = <<>>
        /\ out = <<>>
        /\ nwritten = 0
        /\ pass = 1
        /\ first = <<>>
        /\ cli = [op |-> cmd.op, n |-> cmd.n, table |-> cmd.table, pc |-> "run",
                  result |-> None, clusters |-> <<>>, written |-> <<>>,
                  cluster_count |-> 0, sequence_count |-> 0,
                  stdout |-> <<>>, stderr |-> <<>>, files |-> <<>>]

\* The subcommand returns, with Ok(()) or with the error of `cluster?`.
Return(c, result) == [c EXCEPT !.pc = "returned", !.result = Some(result)]

\* One turn of the parser, shared by the loops below.
Pull(r) ==
    /\ reader' = r.reader
    /\ current_cluster' = r.current_cluster
    /\ yielded' = Append(yielded, r.item)

\* filter_n: one iteration of `for cluster in parser`.
FilterAfter(r) ==
    /\ Pull(r)
    /\ IF r.item.tag = "None"
       THEN cli' = Return(cli, Ok(<<>>)) /\ UNCHANGED <<out, nwritten>>
       ELSE IF r.item.val.tag = "Err"
       THEN cli' = Return(cli, Err(r.item.val.err)) /\ UNCHANGED <<out, nwritten>>
       ELSE IF Keep(r.item.val.val, cli.n)
       THEN /\ out' = out \o write_cluster(r.item.val.val)
            /\ nwritten' = nwritten + 1
            /\ cli' = [cli EXCEPT !.written = Append(@, r.item.val.val)]
       ELSE UNCHANGED <<out, nwritten, cli>>

FilterStep ==
    /\ cli.op = "filtern" /\ cli.pc = "run"
    /\ FilterAfter(ClstrParser_next(reader, current_cluster))
    /\ UNCHANGED <<input, pass, first>>

\* top_n: one iteration of collect() into Result<Vec<Cluster>>.
CollectAfter(r) ==
    /\ Pull(r)
    /\ cli' = IF r.item.tag = "None" THEN [cli EXCEPT !.pc = "collected"]
              ELSE IF r.item.val.tag = "Err" THEN Return(cli, Err(r.item.val.err))
              ELSE [cli EXCEPT !.clusters = Append(@, r.item.val.val)]

TopnCollect ==
    /\ cli.op = "topn" /\ cli.pc = "run"
    /\ CollectAfter(ClstrParser_next(reader, current_cluster))
    /\ UNCHANGED <<input, out, nwritten, pass, first>>

\* top_n after collect(): sort, take, and write each cluster.
TopnWrite ==
    /\ cli.op = "topn" /\ cli.pc = "collected"
    /\ out' = out \o WriteAll(take(sort_by_key(cli.clusters), cli.n))
    /\ nwritten' = nwritten + Len(take(sort_by_key(cli.clusters), cli.n))
    /\ cli' = Return([cli EXCEPT !.clusters = sort_by_key(@),
                                 !.written = take(sort_by_key(cli.clusters), cli.n)],
                     Ok(<<>>))
    /\ UNCHANGED <<input, reader, current_cluster, yielded, pass, first>>

\* stats: one iteration of either loop; the summary is printed by the
\* iteration that ends the second loop.  A line of stdout is kept as its
\* fields; the average is kept as the quotient it is computed from.
StatsAfter(r) ==
    /\ Pull(r)
    /\ cli' =
         IF r.item.tag = "Some" /\ r.item.val.tag = "Err"
         THEN Return(cli, Err(r.item.val.err))
         ELSE IF cli.table
         THEN IF r.item.tag = "None" THEN Return(cli, Ok(<<>>))
              ELSE [cli EXCEPT !.stdout =
                        Append(@, [cluster_id |-> r.item.val.val.cluster_id,
                                   size |-> size(r.item.val.val)])]
         ELSE IF r.item.tag = "None"
              THEN Return([cli EXCEPT !.stdout =
                               @ \o <<[header |-> "Cluster count\tSequence count\tAvg seqs per cluster"],
                                      [cluster_count |-> cli.cluster_count,
                                       sequence_count |-> cli.sequence_count,
                                       avg |-> <<cli.sequence_count, cli.cluster_count>>]>>],
                          Ok(<<>>))
              ELSE [cli EXCEPT !.cluster_count = @ + 1,
                               !.sequence_count = @ + size(r.item.val.val)]

StatsStep ==
    /\ cli.op = "stats" /\ cli.pc = "run"
    /\ StatsAfter(ClstrParser_next(reader, current_cluster))
    /\ UNCHANGED <<input, out, nwritten, pass, first>>

\* to_fasta: one iteration of `for cluster in cluster_parser`.
FastaAfter(r) ==
    /\ Pull(r)
    /\ cli' =
         IF r.item.tag = "None" THEN Return(cli, Ok(<<>>))
         ELSE IF r.item.val.tag = "Err" THEN Return(cli, Err(r.item.val.err))
         ELSE [cli EXCEPT
                 !.files = CreateFile(@, FastaName(r.item.val.val),
                                      FastaRecords(r.item.val.val.sequences)),
                 !.stderr = @ \o FastaWarnings(r.item.val.val.sequences)]

FastaStep ==
    /\ cli.op = "tofasta" /\ cli.pc = "run"
    /\ FastaAfter(ClstrParser_next(reader, current_cluster))
    /\ UNCHANGED <<input, out, nwritten, pass, first>>

\* A main that drops the subcommand's result.
ReportAndExit_Silent ==
    /\ cli.pc = "returned"
    /\ cli' = [cli EXCEPT !.pc = "exit"]
    /\ UNCHANGED <<input, reader, current_cluster, yielded, out, nwritten,
                   pass, first>>

\* main after the subcommand returned: an error is printed to stderr, and
\* main returns Ok(()).
ReportAndExit ==
    /\ cli.pc = "returned"
    /\ cli' = [cli EXCEPT
                 !.pc = "exit",
                 !.stderr = IF cli.result.val.tag = "Err"
                            THEN Append(@, [clstr_error |-> cli.result.val.err])
                            ELSE @]
    /\ UNCHANGED <<input, reader, current_cluster, yielded, out, nwritten,
                   pass, first>>

NextCli ==
    FilterStep \/ TopnCollect \/ TopnWrite \/ StatsStep \/ FastaStep
    \/ ReportAndExit

SpecCli == InitCli /\ [][NextCli]_vars

----------------------------------------------------------------------------
(* What the claims speak of.                                               *)

\* The lines of a text, as the reader delivers them.
RECURSIVE LinesFrom(_)
LinesFrom(rd) ==
    IF lines_next(rd).item.tag = "None" THEN <<>>
    ELSE <<lines_next(rd).item.val.val>> \o LinesFrom(lines_next(rd).rd)

InputLines == LinesFrom(NewReader(input, 0))

\* A header line as the format writes it.
HeaderShape(line) == starts_with(line, Chars(">Cluster"))

\* A plain decimal numeral: digits, optionally '.' and more digits.
PlainDecimal(p) ==
    LET dot == find(p, <<".">>)
    IN  IF dot.tag = "None" THEN p # <<>> /\ AllDigits(p)
        ELSE /\ dot.val > 0 /\ dot.val + 1 < Len(p)
             /\ AllDigits(SubSeq(p, 1, dot.val))
             /\ AllDigits(SubSeq(p, dot.val + 2, Len(p)))

\* The value of a plain decimal numeral, in units of 10^-FracScale.
DecimalValue(p) ==
    LET dot == find(p, <<".">>)
        ip  == IF dot.tag = "None" THEN p ELSE SubSeq(p, 1, dot.val)
        fp  == IF dot.tag = "None" THEN <<>> ELSE SubSeq(p, dot.val + 2, Len(p))
    IN  DigitsValue(ip, 0) * Pow10(FracScale)
        + DigitsValue(fp, 0) * Pow10(FracScale - Len(fp))

\* The third token of a well-formed record: '>', an id that neither starts
\* with '>' nor holds the delimiter, and the delimiter "..." once, last.
WellFormedIdToken(t) ==
    /\ Len(t) >= 5
    /\ t[1] = ">"
    /\ t[2] # ">"
    /\ find(t, Chars("...")) = Some(Len(t) - 3)

\* A record line of the shape '{index} {length}aa, >{id}...' followed by
\* nothing, by ' *' or by ' at {p}%'.
WellFormedRecord(line) ==
    LET t == split_whitespace(line)
    IN  /\ Len(t) \in {3, 4, 5}
        /\ ~IsWhitespace(line[1])
        /\ AllDigits(t[1])
        /\ Len(t[2]) > 3
        /\ SubSeq(t[2], Len(t[2]) - 2, Len(t[2])) = Chars("aa,")
        /\ AllDigits(SubSeq(t[2], 1, Len(t[2]) - 3))
        /\ WellFormedIdToken(t[3])
        /\ Len(t) = 3 => ends_with(line, t[3])
        /\ Len(t) = 4 => t[4] = <<"*">> /\ ends_with(line, t[3] \o Chars(" *"))
        /\ Len(t) = 5 =>
              /\ t[4] = Chars("at")
              /\ ends_with(line, t[3] \o Chars(" at ") \o t[5])
              /\ Len(t[5]) > 1
              /\ t[5][Len(t[5])] = "%"
              /\ PlainDecimal(SubSeq(t[5], 1, Len(t[5]) - 1))

\* The Sequence a well-formed record line stands for.
ExpectedSequence(line) ==
    LET t == split_whitespace(line)
    IN  Sequence(DigitsValue(SubSeq(t[2], 1, Len(t[2]) - 3), 0),
                 SubSeq(t[3], 2, Len(t[3]) - 3),
                 IF Len(t) = 5
                 THEN Some(DecimalValue(SubSeq(t[5], 1, Len(t[5]) - 1)))
                 ELSE None,
                 line[Len(line)] = "*")

\* The record line of an input of the line specification: its second line.
HasRecordLine == Len(InputLines) >= 2 /\ ~IsHeaderLine(InputLines[2])
RecordLine == InputLines[2]

\* The first call of next() on the input has returned.
FirstReturned == pass = 1 /\ yielded # <<>>

IsOkItem(item) == item.tag = "Some" /\ item.val.tag = "Ok"
IsErrItem(item) == item.tag = "Some" /\ item.val.tag = "Err"

\* No read fails and every line is a header or a well-formed record.
WellFormedInput ==
    /\ pass = 1
    /\ reader.failAt = 0
    /\ \A i \in 1..Len(InputLines) :
           HeaderShape(InputLines[i]) \/ WellFormedRecord(InputLines[i])

HeaderCount == Cardinality({i \in 1..Len(InputLines) : HeaderShape(InputLines[i])})

----------------------------------------------------------------------------
(* C1: on a well-formed input with K header lines the parser returns K     *)
(* clusters numbered 0, 1, ..., K-1 in order, then nothing, whatever       *)
(* numeral the headers carry.                                              *)
C1_ClusterIdsAreRanks ==
    WellFormedInput =>
        \A i \in 1..Len(yielded) :
            IF i <= HeaderCount
            THEN IsOkItem(yielded[i]) /\ yielded[i].val.val.cluster_id = i - 1
            ELSE yielded[i] = None

\* Two clusters were returned from an input whose first header says 1.
C1_Witness ==
    /\ WellFormedInput
    /\ HeaderCount = 2
    /\ Len(yielded) = 3
    /\ InputLines[1] = Chars(">Cluster 1")
    /\ yielded[2].val.val.cluster_id = 1

(* C3: for a well-formed record line the parser returns the Sequence with  *)
(* the line's length and id, identity present exactly when " at " occurs   *)
(* in the line, and is_representative true exactly when the line ends in   *)
(* '*'.                                                                    *)
C3_WellFormedRecordParsed ==
    (FirstReturned /\ HasRecordLine /\ WellFormedRecord(RecordLine)) =>
        /\ yielded[1] = Some(Ok(Cluster(0, <<ExpectedSequence(RecordLine)>>)))
        /\ (yielded[1].val.val.sequences[1].identity.tag = "Some")
               <=> (find(RecordLine, Chars(" at ")).tag = "Some")
        /\ yielded[1].val.val.sequences[1].is_representative
               <=> (RecordLine[Len(RecordLine)] = "*")

\* A well-formed record with an identity of three fraction digits was parsed.
C3_Witness ==
    /\ FirstReturned /\ HasRecordLine /\ WellFormedRecord(RecordLine)
    /\ IsOkItem(yielded[1])
    /\ yielded[1].val.val.sequences[1].identity = Some(99896 * Pow10(FracScale - 3))
    /\ ~yielded[1].val.val.sequences[1].is_representative

(* C7: a record line with fewer than three tokens, or whose second token   *)
(* lacks the suffix "aa,", makes next() return a ReadRecord error that     *)
(* carries the line; the line is not skipped.                              *)
C7_MalformedRecordIsReadRecordError ==
    (/\ FirstReturned /\ HasRecordLine
     /\ IsHeaderLine(InputLines[1])
     /\ \/ Len(split_whitespace(RecordLine)) < 3
        \/ ~ends_with(split_whitespace(RecordLine)[2], Chars("aa,")))
    => /\ IsErrItem(yielded[1])
       /\ yielded[1].val.err.kind = "ReadRecord"
       /\ yielded[1].val.err.line = RecordLine

\* A line of three tokens whose second token lacks the comma was rejected.
C7_Witness ==
    /\ FirstReturned /\ HasRecordLine
    /\ Len(split_whitespace(RecordLine)) >= 3
    /\ split_whitespace(RecordLine)[2] = Chars("100aa")
    /\ IsErrItem(yielded[1])
    /\ yielded[1].val.err.kind = "ReadRecord"

----------------------------------------------------------------------------
\* The non-header lines that follow the k-th header line, up to the next
\* header line or the end of the input.
RECURSIVE BlockFrom(_, _)
BlockFrom(lines, i) ==
    IF i > Len(lines) \/ HeaderShape(lines[i]) THEN <<>>
    ELSE <<lines[i]>> \o BlockFrom(lines, i + 1)

HeaderPositions(lines) == {i \in 1..Len(lines) : HeaderShape(lines[i])}

\* The position of the k-th header line.
HeaderAt(lines, k) ==
    CHOOSE i \in HeaderPositions(lines) :
        Cardinality({j \in HeaderPositions(lines) : j <= i}) = k

BlockOf(lines, k) == BlockFrom(lines, HeaderAt(lines, k) + 1)

(* C2: every cluster the parser returns holds one sequence per non-header  *)
(* line between its header and the next header (or the end of the input),  *)
(* in the order of those lines.                                            *)
C2_SequencesAreBlockLines ==
    (pass = 1 /\ reader.failAt = 0) =>
        \A k \in 1..Len(Clusters(yielded)) :
            /\ k <= HeaderCount
            /\ Len(Clusters(yielded)[k].sequences) = Len(BlockOf(InputLines, k))
            /\ \A j \in 1..Len(Clusters(yielded)[k].sequences) :
                   Ok(Clusters(yielded)[k].sequences[j])
                       = parse_sequence_line(BlockOf(InputLines, k)[j])

(* C8: once next() has returned a record-parse error, no later call on the *)
(* same parser returns a Cluster.                                          *)
C8_ParseErrorIsTerminal ==
    \A i \in 1..Len(yielded) : \A j \in 1..Len(yielded) :
        (i < j /\ IsErrItem(yielded[i]) /\ yielded[i].val.err.kind # "Io")
            => ~IsOkItem(yielded[j])

\* The first three tokens of the record line are well formed.
RecordHeadWellFormed ==
    /\ HasRecordLine
    /\ Len(split_whitespace(RecordLine)) >= 3
    /\ AllDigits(split_whitespace(RecordLine)[1])
    /\ Len(split_whitespace(RecordLine)[2]) > 3
    /\ ends_with(split_whitespace(RecordLine)[2], Chars("aa,"))
    /\ AllDigits(SubSeq(split_whitespace(RecordLine)[2], 1,
                        Len(split_whitespace(RecordLine)[2]) - 3))

(* C9: a record line that ends in '*' and contains " at " parses, with     *)
(* is_representative true and identity present.                            *)
C9_IdentityAndRepresentativeTogether ==
    (/\ FirstReturned /\ RecordHeadWellFormed
     /\ WellFormedIdToken(split_whitespace(RecordLine)[3])
     /\ ends_with(RecordLine, Chars(" at 95.00% *")))
    => /\ IsOkItem(yielded[1])
       /\ yielded[1].val.val.sequences[1].is_representative
       /\ yielded[1].val.val.sequences[1].identity.tag = "Some"

\* The third token holds no "...", or nothing but '>' before it.
IdTokenLacksDelimitedId(t) ==
    \/ find(t, Chars("...")).tag = "None"
    \/ find(trim_start_matches(t, ">"), Chars("...")) = Some(0)

(* C10: a record line whose third token holds no "...", or nothing before  *)
(* it, is rejected with the ReadRecord error "Invalid ID format".          *)
C10_BadIdIsRejected ==
    (/\ FirstReturned /\ RecordHeadWellFormed
     /\ Len(split_whitespace(RecordLine)) = 3
     /\ IdTokenLacksDelimitedId(split_whitespace(RecordLine)[3]))
    => /\ IsErrItem(yielded[1])
       /\ yielded[1].val.err.kind = "ReadRecord"
       /\ yielded[1].val.err.msg = "Invalid ID format"

----------------------------------------------------------------------------
NoErrItems(items) == \A i \in 1..Len(items) : ~IsErrItem(items[i])

\* The second parser, reading the written bytes, is exhausted.
RoundTripDone ==
    pass = 2 /\ yielded # <<>> /\ yielded[Len(yielded)].tag = "None"

\* An identity value rounded to two decimal places.
Round2(v) ==
    IF v < 0 THEN 0 - Hundredths(0 - v) * Pow10(FracScale - 2)
    ELSE Hundredths(v) * Pow10(FracScale - 2)

SameAfterRoundTrip(s1, s2) ==
    /\ s2.length = s1.length
    /\ s2.id = s1.id
    /\ s2.is_representative = s1.is_representative
    /\ IF s1.identity.tag = "Some"
       THEN s2.identity = Some(Round2(s1.identity.val))
       ELSE s2.identity = None

OutLines == LinesFrom(NewReader(out, 0))

\* In the written text the member lines of every cluster are numbered
\* 0, 1, 2, ... by their first token.
WrittenIndicesRenumbered ==
    \A k \in 1..Cardinality(HeaderPositions(OutLines)) :
        \A j \in 1..Len(BlockOf(OutLines, k)) :
            split_whitespace(BlockOf(OutLines, k)[j])[1] = FormatNat(j - 1)

(* C4: when the input parses without error, parsing the written text again *)
(* gives cluster by cluster and sequence by sequence the same length, id   *)
(* and is_representative, the identity rounded to two decimals, and member *)
(* indices 0..N-1 in the written text.                                     *)
C4_RoundTrip ==
    (RoundTripDone /\ NoErrItems(first)) =>
        /\ NoErrItems(yielded)
        /\ Len(Clusters(yielded)) = Len(Clusters(first))
        /\ \A k \in 1..Len(Clusters(first)) :
               /\ Len(Clusters(yielded)[k].sequences)
                      = Len(Clusters(first)[k].sequences)
               /\ \A j \in 1..Len(Clusters(first)[k].sequences) :
                      SameAfterRoundTrip(Clusters(first)[k].sequences[j],
                                         Clusters(yielded)[k].sequences[j])
        /\ WrittenIndicesRenumbered

----------------------------------------------------------------------------
\* The items the parser of the input returned.
FirstItems == IF pass = 1 THEN yielded ELSE first

\* The input was parsed to exhaustion and every cluster written.
WriteDone ==
    \/ pass = 2
    \/ pass = 1 /\ yielded # <<>> /\ yielded[Len(yielded)].tag = "None"

\* The length of the first token of a line that starts with one.
RECURSIVE LeadingRun(_, _)
LeadingRun(line, i) ==
    IF i > Len(line) \/ IsWhitespace(line[i]) THEN i - 1
    ELSE LeadingRun(line, i + 1)

\* A text in which the numeral between " at " and the trailing '%' is
\* rewritten with two decimals and nothing else is touched.
NormalizedIdentity(rest) ==
    LET at  == find(rest, Chars(" at "))
        num == trim_end_matches(SubSeq(rest, at.val + 5, Len(rest)), "%")
    IN  IF at.tag = "None" THEN rest
        ELSE SubSeq(rest, 1, at.val + 4)
             \o (IF parse_f32(num).ok THEN FormatFixed2(parse_f32(num).val)
                 ELSE num)
             \o SubSeq(rest, at.val + 5 + Len(num), Len(rest))

\* A record line with its first token replaced by k and its identity
\* normalized.
NormalizedRecord(line, k) ==
    FormatNat(k)
    \o NormalizedIdentity(SubSeq(line, LeadingRun(line, 1) + 1, Len(line)))

\* The bytes of the text from the reader's position on, with the member
\* indices renumbered per cluster, the identities normalized, and every
\* other byte (headers, separators, leading lines, terminators) kept.
RECURSIVE NormalizedFrom(_, _, _)
NormalizedFrom(rd, inCluster, k) ==
    IF lines_next(rd).item.tag = "None" THEN <<>>
    ELSE
    LET nx   == lines_next(rd)
        line == nx.item.val.val
        seg  == SubSeq(rd.buf, rd.pos + 1, nx.rd.pos)
    IN  IF HeaderShape(line)
        THEN seg \o NormalizedFrom(nx.rd, TRUE, 0)
        ELSE IF ~inCluster
        THEN seg \o NormalizedFrom(nx.rd, FALSE, 0)
        ELSE NormalizedRecord(line, k)
             \o SubSeq(seg, Len(line) + 1, Len(seg))
             \o NormalizedFrom(nx.rd, TRUE, k + 1)

NormalizedText(text) == NormalizedFrom(NewReader(text, 0), FALSE, 0)

\* A record line in the writer's layout: the index, four spaces, the
\* length without sign or leading zeros, "aa,", one space, '>', the id and
\* "...", then nothing, " *" or " at {p}%".
CanonicalRecord(line) ==
    LET t == split_whitespace(line)
    IN  /\ WellFormedRecord(line)
        /\ starts_with(line, t[1] \o Chars("    ") \o t[2] \o <<" ">> \o t[3])
        /\ FormatNat(DigitsValue(SubSeq(t[2], 1, Len(t[2]) - 3), 0))
               = SubSeq(t[2], 1, Len(t[2]) - 3)

\* A text in the writer's layout: it starts with a header, every header is
\* ">Cluster k" with k its rank from 0, every other line is a canonical
\* record, and every line ends in a line feed with no carriage return.
CanonicalText(text) ==
    LET lines == LinesFrom(NewReader(text, 0))
    IN  /\ text # <<>> => text[Len(text)] = "\n"
        /\ \A i \in 1..Len(text) : text[i] # "\r"
        /\ \A i \in 1..Len(lines) :
               IF i = 1 \/ HeaderShape(lines[i])
               THEN lines[i] = Chars(">Cluster ")
                        \o FormatNat(Cardinality(
                               {j \in HeaderPositions(lines) : j < i}))
               ELSE CanonicalRecord(lines[i])

----------------------------------------------------------------------------
RECURSIVE SumLen(_)
SumLen(lines) == IF lines = <<>> THEN 0 ELSE Len(Head(lines)) + 1 + SumLen(Tail(lines))

\* The text written between "..." and the end of a member line, without
\* the representative mark: nothing, or " at ", a numeral of exactly two
\* fraction digits whose value is the identity rounded, and '%'.
IdentityPartOk(mid, identity) ==
    IF identity.tag = "None" THEN mid = <<>>
    ELSE /\ Len(mid) >= 9
         /\ starts_with(mid, Chars(" at "))
         /\ mid[Len(mid)] = "%"
         /\ mid[Len(mid) - 3] = "."
         /\ PlainDecimal(SubSeq(mid, 5, Len(mid) - 1))
         /\ DecimalValue(SubSeq(mid, 5, Len(mid) - 1)) = Round2(identity.val)

MemberHead(i, s) ==
    FormatNat(i) \o Chars("    ") \o FormatNat(s.length) \o Chars("aa, >")
    \o s.id \o Chars("...")

\* A written member line for the sequence s at list position i.
MemberLineOk(line, i, s) ==
    /\ starts_with(line, MemberHead(i, s))
    /\ s.is_representative <=>
           ends_with(SubSeq(line, Len(MemberHead(i, s)) + 1, Len(line)), Chars(" *"))
    /\ IdentityPartOk(
           SubSeq(line, Len(MemberHead(i, s)) + 1,
                  Len(line) - (IF s.is_representative THEN 2 ELSE 0)),
           s.identity)

(* C6: write_cluster writes the header line ">Cluster {cluster_id}", then  *)
(* one line per sequence in list order, the line at position i being       *)
(* "{i}    {length}aa, >{id}...", then " at {identity with 2 decimals}%"   *)
(* exactly when the identity is present, then " *" exactly when the        *)
(* sequence is representative, each line ended by a line feed, and nothing *)
(* else.                                                                   *)
C6_WrittenClusterText ==
    (nwritten = 1) =>
        /\ Len(OutLines) = 1 + Len(Clusters(FirstItems)[1].sequences)
        /\ Len(out) = SumLen(OutLines)
        /\ OutLines[1] = Chars(">Cluster ")
                             \o FormatNat(Clusters(FirstItems)[1].cluster_id)
        /\ \A i \in 1..Len(Clusters(FirstItems)[1].sequences) :
               MemberLineOk(OutLines[i + 1], i - 1,
                            Clusters(FirstItems)[1].sequences[i])

\* Cluster 12 was written with two sequences, the second one carrying both
\* an identity and the representative mark.
C6_Witness ==
    /\ nwritten = 1
    /\ Clusters(FirstItems)[1].cluster_id = 12
    /\ Len(Clusters(FirstItems)[1].sequences) = 2
    /\ Clusters(FirstItems)[1].sequences[2].is_representative
    /\ Clusters(FirstItems)[1].sequences[2].identity
           = Some(99896 * Pow10(FracScale - 3))
    /\ Len(OutLines) = 3

----------------------------------------------------------------------------
\* The text from its first header line on.
RECURSIVE DropStray(_)
DropStray(rd) ==
    IF lines_next(rd).item.tag = "None" THEN <<>>
    ELSE IF HeaderShape(lines_next(rd).item.val.val)
         THEN SubSeq(rd.buf, rd.pos + 1, Len(rd.buf))
         ELSE DropStray(lines_next(rd).rd)

\* The items of n successive calls of next() from a parser state, and the
\* cluster the parser holds afterwards.
RECURSIVE Drive(_, _, _)
DriveOn(r, n) ==
    [Drive(r.reader, r.current_cluster, n - 1)
        EXCEPT !.items = <<r.item>> \o @]

Drive(rd, cur, n) ==
    IF n = 0 THEN [items |-> <<>>, current_cluster |-> cur]
    ELSE DriveOn(ClstrParser_next(rd, cur), n)

(* C11: the non-header lines before the first header line are ignored:     *)
(* the parser returns the same items, and holds the same cluster, as on    *)
(* the input without them; none of them is parsed or raises an error.      *)
C11_StrayLinesIgnored ==
    (pass = 1 /\ reader.failAt = 0) =>
        Drive(NewReader(DropStray(NewReader(input, 0)), 0), None, Len(yielded))
            = [items |-> yielded, current_cluster |-> current_cluster]

(* C12: once next() has returned None it returns None ever after; no       *)
(* cluster is returned twice; an input without a header line gives None at *)
(* the first call; and when the input is exhausted the parser holds no     *)
(* cluster, the last header's cluster having been returned by the call     *)
(* just before the first None.                                             *)
C12_EndOfInput ==
    pass = 1 =>
        /\ \A i \in 1..Len(yielded) : \A j \in 1..Len(yielded) :
               (i < j /\ yielded[i] = None) => yielded[j] = None
        /\ \A i \in 1..Len(Clusters(yielded)) : \A j \in 1..Len(Clusters(yielded)) :
               i < j => Clusters(yielded)[i].cluster_id < Clusters(yielded)[j].cluster_id
        /\ (reader.failAt = 0 /\ HeaderCount = 0 /\ yielded # <<>>)
               => yielded[1] = None
        /\ (yielded # <<>> /\ yielded[Len(yielded)] = None) =>
               /\ current_cluster = None
               /\ (reader.failAt = 0 /\ HeaderCount > 0) =>
                      \E k \in 1..Len(yielded) :
                          /\ IsOkItem(yielded[k])
                          /\ yielded[k].val.val.cluster_id = HeaderCount - 1
                          /\ yielded[k + 1] = None

----------------------------------------------------------------------------
\* The clusters the parser has returned to the subcommand, in input order.
Parsed == Clusters(yielded)

\* What the output file holds: the numeral of each header line, and the
\* number of member lines under it.
WrittenCount == Cardinality(HeaderPositions(OutLines))
WrittenId(k) ==
    DigitsValue(SubSeq(OutLines[HeaderAt(OutLines, k)], Len(Chars(">Cluster ")) + 1,
                       Len(OutLines[HeaderAt(OutLines, k)])), 0)
WrittenSize(k) == Len(BlockOf(OutLines, k))

\* The parsed cluster of a given id.
ParsedWithId(id) ==
    Parsed[CHOOSE i \in 1..Len(Parsed) : Parsed[i].cluster_id = id]

\* The output file holds exactly the text of the parsed clusters it names.
RECURSIVE WrittenTextFrom(_)
WrittenTextFrom(k) ==
    IF k > WrittenCount THEN <<>>
    ELSE write_cluster(ParsedWithId(WrittenId(k))) \o WrittenTextFrom(k + 1)

WrittenAreParsed ==
    /\ \A k \in 1..WrittenCount :
           \E i \in 1..Len(Parsed) : Parsed[i].cluster_id = WrittenId(k)
    /\ out = WrittenTextFrom(1)

\* Cluster a ranks before cluster b: it is larger, or as large and earlier
\* in the input.
RanksBefore(a, b) ==
    \/ size(a) > size(b)
    \/ size(a) = size(b) /\ a.cluster_id < b.cluster_id

TopnSucceeded ==
    /\ cli.op = "topn"
    /\ cli.pc \in {"returned", "exit"}
    /\ cli.result = Some(Ok(<<>>))

(* C13: when top_n succeeds the output file holds min(N, K) of the K       *)
(* clusters of the input, each before the next in rank (larger first,      *)
(* equal sizes in input order), and every cluster left out ranks after     *)
(* every cluster written.                                                  *)
C13_TopnWritesLargestStable ==
    TopnSucceeded =>
        /\ WrittenCount = (IF cli.n < Len(Parsed) THEN cli.n ELSE Len(Parsed))
        /\ WrittenAreParsed
        /\ \A k \in 1..(WrittenCount - 1) :
               RanksBefore(ParsedWithId(WrittenId(k)), ParsedWithId(WrittenId(k + 1)))
        /\ \A i \in 1..Len(Parsed) :
               (\A k \in 1..WrittenCount : WrittenId(k) # Parsed[i].cluster_id)
                   => \A k \in 1..WrittenCount :
                          RanksBefore(ParsedWithId(WrittenId(k)), Parsed[i])

\* Of three clusters of sizes 0, 1, 0 the top two were written: cluster 1,
\* then cluster 0, the earlier of the two empty ones.
C13_Witness ==
    /\ TopnSucceeded
    /\ cli.n = 2
    /\ Len(Parsed) = 3
    /\ size(Parsed[1]) = 0 /\ size(Parsed[2]) = 1 /\ size(Parsed[3]) = 0
    /\ WrittenCount = 2
    /\ WrittenId(1) = 1 /\ WrittenId(2) = 0

\* The ids of the clusters of at least n sequences, in order.
RECURSIVE IdsAtLeast(_, _)
IdsAtLeast(clusters, n) ==
    IF clusters = <<>> THEN <<>>
    ELSE (IF Len(Head(clusters).sequences) >= n
          THEN <<Head(clusters).cluster_id>> ELSE <<>>)
         \o IdsAtLeast(Tail(clusters), n)

(* C14: at every moment of filter_n the output file holds exactly the      *)
(* clusters parsed so far that have at least filter_threshold sequences,   *)
(* in input order.                                                         *)
C14_FilterKeepsAtLeastThreshold ==
    cli.op = "filtern" =>
        /\ WrittenCount = Len(IdsAtLeast(Parsed, cli.n))
        /\ \A k \in 1..WrittenCount : WrittenId(k) = IdsAtLeast(Parsed, cli.n)[k]
        /\ WrittenAreParsed

\* With threshold 1, a cluster of exactly one sequence was written and an
\* empty cluster before it was not.
C14_Witness ==
    /\ cli.op = "filtern" /\ cli.n = 1 /\ cli.pc = "exit"
    /\ Len(Parsed) = 2
    /\ size(Parsed[1]) = 0 /\ size(Parsed[2]) = 1
    /\ WrittenCount = 1 /\ WrittenId(1) = 1 /\ WrittenSize(1) = 1

----------------------------------------------------------------------------
\* The parser of the input has returned None.
Exhausted == pass = 1 /\ yielded # <<>> /\ yielded[Len(yielded)] = None

(* C15: a line opens a cluster exactly when it begins with ">Cluster": on  *)
(* an input read without failure to its end, the parser has returned as    *)
(* many clusters as the input has lines beginning with ">Cluster".         *)
C15_HeaderIffClusterLine ==
    (Exhausted /\ reader.failAt = 0) => Len(Clusters(yielded)) = HeaderCount

\* The third token without one leading '>'.
WithoutOneMarker(t) == IF t # <<>> /\ t[1] = ">" THEN Tail(t) ELSE t

(* C16: the id of a parsed Sequence is its line's third token without one  *)
(* leading '>' (further '>' are kept), cut before the first "...".         *)
C16_IdStripsOneMarker ==
    (/\ FirstReturned /\ HasRecordLine
     /\ IsOkItem(yielded[1])
     /\ Len(yielded[1].val.val.sequences) = 1
     /\ find(WithoutOneMarker(split_whitespace(RecordLine)[3]), Chars("...")).tag = "Some")
    => yielded[1].val.val.sequences[1].id
           = SubSeq(WithoutOneMarker(split_whitespace(RecordLine)[3]), 1,
                    find(WithoutOneMarker(split_whitespace(RecordLine)[3]),
                         Chars("...")).val)

\* What precedes "aa," in the second token is no numeral: it is empty or
\* holds a character that is neither a digit nor a sign.
LengthNotNumeric(line) ==
    /\ Len(split_whitespace(line)) >= 3
    /\ ends_with(split_whitespace(line)[2], Chars("aa,"))
    /\ \/ Len(split_whitespace(line)[2]) = 3
       \/ \E i \in 1..(Len(split_whitespace(line)[2]) - 3) :
              /\ ~IsDigit(split_whitespace(line)[2][i])
              /\ split_whitespace(line)[2][i] \notin {"+", "-"}

(* C17: the error for a length token whose part before "aa," is not a      *)
(* number carries the integer-parse failure and the text of the line.      *)
C17_LengthErrorCarriesLine ==
    (FirstReturned /\ HasRecordLine /\ LengthNotNumeric(RecordLine)) =>
        /\ IsErrItem(yielded[1])
        /\ "cause" \in DOMAIN yielded[1].val.err
        /\ "line" \in DOMAIN yielded[1].val.err
        /\ yielded[1].val.err.line = RecordLine

\* s is the start of t.
IsPrefix(s, t) == Len(s) <= Len(t) /\ SubSeq(t, 1, Len(s)) = s

\* This step is the call of next() in which the failing read happens.
FailingAdvance ==
    /\ pass = 1 /\ pass' = 1
    /\ Len(yielded') = Len(yielded) + 1
    /\ reader.nread < reader.failAt
    /\ reader'.nread >= reader.failAt

(* C18: the call of next() in which a read fails returns the Io error and  *)
(* no cluster, reads no line after the failing one, and leaves the cluster *)
(* being accumulated as the lines read before the failure made it: the     *)
(* same cluster when the failing read is the call's first, and otherwise   *)
(* the same id with one more sequence per line read before the failure.    *)
C18_IoFailureYieldedAtOnce ==
    [][FailingAdvance =>
          /\ yielded' = Append(yielded, Some(Err(IoError)))
          /\ reader'.nread = reader.failAt
          /\ (reader.nread + 1 = reader.failAt) => current_cluster' = current_cluster
          /\ (current_cluster.tag = "Some") =>
                 /\ current_cluster'.tag = "Some"
                 /\ current_cluster'.val.cluster_id = current_cluster.val.cluster_id
                 /\ IsPrefix(current_cluster.val.sequences,
                             current_cluster'.val.sequences)
                 /\ Len(current_cluster'.val.sequences)
                        = Len(current_cluster.val.sequences)
                              + (reader.failAt - 1 - reader.nread)
          /\ (current_cluster.tag = "None" /\ current_cluster'.tag = "Some")
                 => current_cluster'.val.cluster_id = 0]_vars

\* The second read failed in the first call, which had opened cluster 0; a
\* line is still unread.
C18_Witness ==
    /\ pass = 1
    /\ reader.failAt = 2
    /\ yielded = <<Some(Err(IoError))>>
    /\ current_cluster = Some(Cluster(0, <<>>))
    /\ reader.nread = 2
    /\ reader.pos < Len(reader.buf)

----------------------------------------------------------------------------
\* The parser has returned an error to the subcommand.
ParserFailed == \E i \in 1..Len(yielded) : IsErrItem(yielded[i])

\* The errors main has printed.
Reported == {cli.stderr[i].clstr_error :
                i \in {j \in 1..Len(cli.stderr) : "clstr_error" \in DOMAIN cli.stderr[j]}}

\* Once the parser has returned an error: it is the last item the
\* subcommand took, the subcommand has returned it, and when main is done
\* it has printed it; a subcommand that returned Ok(()) met no error.
ErrorEndsOperation ==
    /\ ParserFailed =>
           /\ IsErrItem(yielded[Len(yielded)])
           /\ \A i \in 1..(Len(yielded) - 1) : ~IsErrItem(yielded[i])
           /\ cli.pc \in {"returned", "exit"}
           /\ cli.result = Some(Err(yielded[Len(yielded)].val.err))
           /\ cli.pc = "exit" => Reported = {yielded[Len(yielded)].val.err}
    /\ (cli.pc = "exit" /\ ~ParserFailed) =>
           /\ cli.result = Some(Ok(<<>>))
           /\ Reported = {}

\* After the error nothing more is parsed and nothing more is written.
NothingAfterError ==
    ParserFailed =>
        /\ yielded' = yielded
        /\ reader' = reader
        /\ out' = out
        /\ cli'.files = cli.files
        /\ cli'.stdout = cli.stdout

(* C19: in topn, filtern, stats and tofasta an error returned by the       *)
(* parser ends the subcommand at once and is printed by main: after it no  *)
(* cluster is parsed or written, and no run ends with the parser having    *)
(* failed and the error not printed.                                       *)
C19_ParserErrorEndsOperation ==
    []ErrorEndsOperation /\ [][NothingAfterError]_vars

\* filtern ended after writing a cluster and then meeting a malformed
\* line: the file holds the cluster and the error was printed.
C19_Witness ==
    /\ cli.op = "filtern" /\ cli.pc = "exit"
    /\ ParserFailed
    /\ yielded[Len(yielded)].val.err.kind = "ReadRecord"
    /\ out # <<>>
    /\ Reported # {}

----------------------------------------------------------------------------
\* The offset in a text of the end of its k-th line.
LineEnds(text) == {i \in 1..Len(text) : text[i] = "\n"}
Offset(text, k) ==
    IF k = 0 THEN 0
    ELSE IF k <= Cardinality(LineEnds(text))
    THEN CHOOSE i \in LineEnds(text) :
             Cardinality({j \in LineEnds(text) : j <= i}) = k
    ELSE Len(text)

\* The reads made so far took the first lines of the input, one line each;
\* no more clusters were returned than the input has lines; and at
\* exhaustion every line has been read.
ConsumedOnce ==
    pass = 1 =>
        /\ reader.nread <= Len(InputLines)
        /\ reader.pos = Offset(input, reader.nread)
        /\ Len(Clusters(yielded)) <= Len(InputLines)
        /\ Exhausted => reader.nread = Len(InputLines) /\ reader.pos = Len(input)

\* A parser never goes back in its input.
ForwardOnly ==
    pass' = pass =>
        /\ reader'.buf = reader.buf
        /\ reader'.pos >= reader.pos
        /\ reader'.nread >= reader.nread

(* C20: on every input repeated calls of next() reach a call that returns  *)
(* None, so the clusters returned are finitely many; the parser only moves *)
(* forward, and each line of the input is read exactly once.               *)
C20_FiniteForwardOnly ==
    []ConsumedOnce /\ [][ForwardOnly]_vars /\ <>Exhausted

\* An input of three lines was read to its end and gave two clusters.
C20_Witness ==
    /\ Exhausted
    /\ reader.failAt = 0
    /\ Len(InputLines) = 3
    /\ reader.nread = 3
    /\ Len(Clusters(yielded)) = 2
    /\ Len(yielded) = 3

----------------------------------------------------------------------------
\* The parser holds nothing or one cluster, and the id of the cluster it
\* holds is the number of clusters it has returned.
OneAccumulatingCluster ==
    /\ current_cluster.tag \in {"None", "Some"}
    /\ current_cluster.tag = "Some" =>
           /\ DOMAIN current_cluster.val = {"cluster_id", "sequences"}
           /\ current_cluster.val.cluster_id = Len(Clusters(yielded))

\* A call of next() adds one item, so at most one cluster; when it returns
\* a cluster and the parser holds one afterwards (the call stopped at a
\* header), the cluster held is empty and numbered one above the returned.
OnePerAdvance ==
    (pass' = pass /\ Len(yielded') = Len(yielded) + 1) =>
        /\ Len(Clusters(yielded')) <= Len(Clusters(yielded)) + 1
        /\ (IsOkItem(yielded'[Len(yielded')]) /\ current_cluster'.tag = "Some") =>
               current_cluster'
                   = Some(Cluster(yielded'[Len(yielded')].val.val.cluster_id + 1,
                                  <<>>))

(* C21: the parser always holds at most one accumulating cluster, whose id *)
(* is the number of clusters already returned; each call of next() returns *)
(* at most one cluster, and a call that returns one on reading a header    *)
(* leaves a new, empty accumulating cluster numbered one above it.         *)
C21_OneClusterAtATime ==
    []OneAccumulatingCluster /\ [][OnePerAdvance]_vars

\* The first call returned cluster 0, which holds a sequence, on reading
\* the next header, and left the empty cluster 1.
C21_Witness ==
    /\ pass = 1
    /\ Len(yielded) = 1
    /\ IsOkItem(yielded[1])
    /\ yielded[1].val.val.cluster_id = 0
    /\ Len(yielded[1].val.val.sequences) = 1
    /\ current_cluster = Some(Cluster(1, <<>>))

====
